---- MODULE Spec2Model ----
(***************************************************************************)
(* Real-time synchronisation of the todo application: the server's Store   *)
(* and its REST handlers, the live-update fan-out, the client's WebSocket  *)
(* module (client/src/services/api.ts) and the App component's             *)
(* reconciliation of the snapshot, the delta events and the one-shot REST  *)
(* fetch.                                                                  *)
(***************************************************************************)
EXTENDS Integers, Sequences, FiniteSets, TLC

\* ---------------------------------------------------------------- bounds

\* WebSocket objects the client module creates in one run.
MaxSockets == 2
\* Store mutations committed in one run.
MaxMutations == 2
\* Longest client-local list the reducer specification starts from.
MaxLen == 3
\* Identifiers the reducer specification draws tasks from.
MaxRid == 2
\* Longest task list an init message of the reducer specification carries.
MaxInitLen == 1

\* ------------------------------------------------------------ vocabulary

\* useState<string | null>(null), socket = null, reconnectTimeout = null
NULL == "null"
NoSocket == 0
NoTimer == 0

Sockets == 1..MaxSockets
Ids == 1..MaxMutations
Titles == {"a"}

LoadError == "Failed to load todos. Please try again later."
AddError == "Failed to add todo. Please check your connection."
DeleteError == "Failed to delete todo."

\* The wire form of a task; the model carries id and title.
TodoItem(id, title) == [id |-> id, title |-> title]
NoTodo == TodoItem(0, "")

\* class TodoItem(BaseModel): id, title, created_at. The Store specification
\* carries all three fields, a title being its sequence of characters.
TodoRecord(id, title, at) == [id |-> id, title |-> title, created_at |-> at]
StoreTitles == {<<>>, <<" ">>, <<"a">>}

\* title.trim(): the title without its leading and trailing white space
Trim(t) ==
  LET inked == {i \in 1..Len(t) : t[i] # " "} IN
    IF inked = {} THEN <<>>
    ELSE SubSeq(t, CHOOSE i \in inked : \A j \in inked : i <= j,
                   CHOOSE i \in inked : \A j \in inked : i >= j)

Range(s) == {s[i] : i \in 1..Len(s)}
IdsOf(list) == {list[i].id : i \in 1..Len(list)}
SeqsUpTo(S, n) == UNION {[1..m -> S] : m \in 0..n}

\* A live-channel frame. json is what its text is: a JSON object, the JSON
\* value null, or no JSON at all; the other fields are the object's. seq is
\* the number of the Store mutation the message reports (for init: the
\* number of mutations its list reflects).
Frame(type, list, t, i, n, json) ==
  [type |-> type, todos |-> list, todo |-> t, id |-> i, seq |-> n, json |-> json]
InitMsg(list, n) == Frame("init", list, NoTodo, 0, n, "object")
CreateMsg(t, n) == Frame("create", <<>>, t, 0, n, "object")
UpdateMsg(t, n) == Frame("update", <<>>, t, 0, n, "object")
DeleteMsg(i, n) == Frame("delete", <<>>, NoTodo, i, n, "object")
OtherMsg == Frame("other", <<>>, NoTodo, 0, 0, "object")
NullMsg == Frame("", <<>>, NoTodo, 0, 0, "null")
BadJson == Frame("", <<>>, NoTodo, 0, 0, "invalid")
NoMsg == Frame("none", <<>>, NoTodo, 0, 0, "object")

\* JSON.parse(event.data) throws a SyntaxError on a text that is not JSON.
ParseThrows(frame) == frame.json = "invalid"

\* switch (data.type) throws a TypeError when data is null.
HandlerThrows(data) == data.json = "null"

\* ----------------------------------------------------------------- state

VARIABLES
  \* server
  store,            \* todos: Dict[UUID, TodoItem]: entries in insertion order
  nextId,           \* the next identifier uuid4() hands out
  seq,              \* Store mutations committed so far
  subscribers,      \* the Broadcaster's connections, in registration order
  sstate,           \* per connection: the Gateway's state machine
  channel,          \* per connection: events sent and not yet received
  snap,             \* per live connection: seq when its snapshot was taken
  pub,              \* per live connection: the mutations published to it
  pubFailed,        \* connections the last publish failed to reach
  lastResult,       \* the last request on one task the server answered
  \* client module api.ts
  socket,           \* let socket: WebSocket | null
  reconnectTimeout, \* let reconnectTimeout: number | null
  isConnecting,     \* let isConnecting
  timers,           \* setTimeout callbacks pending
  cstate,           \* per WebSocket: readyState
  onclose,          \* per WebSocket: whether socket.onclose is still set
  \* App component
  phase,            \* "init" | "mounted" | "unmounted"
  todos,            \* useState<TodoItem[]>([])
  error,            \* useState<string | null>(null)
  wsConnected,      \* useState<boolean>(false)
  load,             \* loadTodos: the fetch in flight and the closure's wsConnected
  req,              \* handleAddTodo / handleDeleteTodo: the request in flight
  \* observation
  lastMsg,          \* the last frame socket.onmessage was given
  lastSock,         \* the socket it arrived on
  lastSeq           \* per live socket: seq of the last message received (-1: none)

serverVars == <<store, nextId, seq, subscribers, sstate, channel, snap, pub,
                pubFailed, lastResult>>
moduleVars == <<socket, reconnectTimeout, isConnecting, timers, cstate, onclose>>
appVars == <<phase, todos, error, wsConnected, load, req>>
obsVars == <<lastMsg, lastSock, lastSeq>>
vars == <<serverVars, moduleVars, appVars, obsVars>>

\* The answer to a request: the operation, the identifier in its path (for a
\* create: the identifier of the task stored) and the status answered.
Result(op, id, status) == [op |-> op, id |-> id, status |-> status]
NoResult == Result("none", 0, "none")

NoLoad == [st |-> "idle", data |-> <<>>, ws |-> FALSE]
NoReq == [st |-> "idle", kind |-> "none", title |-> "", id |-> 0]

Init ==
  /\ store = <<>>
  /\ nextId = 1
  /\ seq = 0
  /\ subscribers = <<>>
  /\ sstate = [k \in Sockets |-> "None"]
  /\ channel = [k \in Sockets |-> <<>>]
  /\ snap = [k \in Sockets |-> -1]
  /\ pub = [k \in Sockets |-> <<>>]
  /\ pubFailed = {}
  /\ lastResult = NoResult
  /\ socket = NoSocket
  /\ reconnectTimeout = NoTimer
  /\ isConnecting = FALSE
  /\ timers = {}
  /\ cstate = [k \in Sockets |-> "NONE"]
  /\ onclose = [k \in Sockets |-> FALSE]
  /\ phase = "init"
  /\ todos = <<>>
  /\ error = NULL
  /\ wsConnected = FALSE
  /\ load = NoLoad
  /\ req = NoReq
  /\ lastMsg = NoMsg
  /\ lastSock = NoSocket
  /\ lastSeq = [k \in Sockets |-> -1]

\* ---------------------------------------------------------------- Store

\* The keys of the dict, and the record stored under a key.
Keys(s) == {s[i].key : i \in 1..Len(s)}
Lookup(s, k) == (CHOOSE e \in Range(s) : e.key = k).val

\* get_todos: list(todos.values())
get_todos == [i \in 1..Len(store) |-> store[i].val]

\* todos[k] = t: a dict keeps a key's place when it is assigned again
StorePut(s, k, t) ==
  IF k \in Keys(s)
  THEN [i \in 1..Len(s) |-> IF s[i].key = k THEN [key |-> k, val |-> t] ELSE s[i]]
  ELSE Append(s, [key |-> k, val |-> t])

\* del todos[todo_id]
StoreDel(s, k) == SelectSeq(s, LAMBDA e : e.key # k)

\* create_todo(todo): todos[todo.id] = todo
create_todo(s, todo) == StorePut(s, todo.id, todo)

\* update_todo(todo_id, updated_todo):
\*   updated_todo.created_at = todos[todo_id].created_at
\*   todos[todo_id] = updated_todo
update_todo(s, todo_id, updated_todo) ==
  StorePut(s, todo_id,
           [updated_todo EXCEPT !.created_at = Lookup(s, todo_id).created_at])

\* ---------------------------------------------------------- Broadcaster

\* A send reaches a connection unless its transport is already dead.
LinkUp(k) == cstate[k] # "CLOSED"

\* The browser queues a message only for a socket that is connecting or open.
Listening(k) == cstate[k] \in {"CONNECTING", "OPEN"}

Failing(subs) == {k \in Range(subs) : ~LinkUp(k)}

\* The first place of subs whose connection is dead (0: none).
FirstFailure(subs) ==
  IF Failing(subs) = {} THEN 0
  ELSE CHOOSE i \in 1..Len(subs) :
         /\ ~LinkUp(subs[i])
         /\ \A j \in 1..(i - 1) : LinkUp(subs[j])

\* A publish that gives up at the first dead connection.
DeliveredUntilFailure(subs) ==
  IF FirstFailure(subs) = 0 THEN Range(subs)
  ELSE {subs[j] : j \in 1..(FirstFailure(subs) - 1)}

\* publish: every registered connection whose send does not fail gets the event.
Delivered(subs) == {k \in Range(subs) : LinkUp(k)}

\* unsubscribe: idempotent removal
Unsubscribe(subs, gone) == SelectSeq(subs, LAMBDA k : k \notin gone)

\* publish(event): deliver to each registered connection in registration
\* order; a failed send removes that subscriber and closes its connection.
Publish(msg) ==
  /\ channel' = [k \in Sockets |->
                  IF k \in Delivered(subscribers) /\ Listening(k)
                  THEN Append(channel[k], msg) ELSE channel[k]]
  /\ pub' = [k \in Sockets |->
              IF k \in Delivered(subscribers) THEN Append(pub[k], msg.seq)
              ELSE IF k \in Failing(subscribers) THEN <<>> ELSE pub[k]]
  /\ snap' = [k \in Sockets |->
               IF k \in Failing(subscribers) THEN -1 ELSE snap[k]]
  /\ subscribers' = Unsubscribe(subscribers, Failing(subscribers))
  /\ sstate' = [k \in Sockets |->
                 IF k \in Failing(subscribers) THEN "Closed" ELSE sstate[k]]
  /\ pubFailed' = Failing(subscribers)

\* ------------------------------------------------- request/response side

\* POST /api/todos. origin "client" is the App's own request in flight,
\* "other" any other caller of the endpoint.
CreateTodo(origin, title) ==
  /\ seq < MaxMutations
  /\ origin = "client" =>
       req.st = "sent" /\ req.kind = "add" /\ req.title = title
  /\ LET t == TodoItem(nextId, title) IN
       /\ store' = create_todo(store, t)
       /\ Publish(CreateMsg(t, seq + 1))
  /\ nextId' = nextId + 1
  /\ seq' = seq + 1
  /\ lastResult' = Result("create", nextId, "ok")
  /\ req' = IF origin = "client" THEN [req EXCEPT !.st = "ok"] ELSE req
  /\ UNCHANGED <<moduleVars, phase, todos, error, wsConnected, load, obsVars>>

\* A delete that announces the deletion even when the task is absent.
DeleteTodoAnnounceAbsent(origin, id) ==
  /\ origin = "client" =>
       req.st = "sent" /\ req.kind = "delete" /\ req.id = id
  /\ IF id \notin Keys(store)
     THEN /\ lastResult' = Result("delete", id, "notfound")
          /\ req' = IF origin = "client" THEN [req EXCEPT !.st = "fail"] ELSE req
          /\ Publish(DeleteMsg(id, seq))
          /\ UNCHANGED <<store, seq>>
     ELSE /\ seq < MaxMutations
          /\ store' = StoreDel(store, id)
          /\ seq' = seq + 1
          /\ Publish(DeleteMsg(id, seq + 1))
          /\ lastResult' = Result("delete", id, "ok")
          /\ req' = IF origin = "client" THEN [req EXCEPT !.st = "ok"] ELSE req
  /\ UNCHANGED <<nextId, moduleVars, phase, todos, error, wsConnected, load,
                 obsVars>>

\* DELETE /api/todos/{todo_id}
DeleteTodo(origin, id) ==
  /\ origin = "client" =>
       req.st = "sent" /\ req.kind = "delete" /\ req.id = id
  /\ IF id \notin Keys(store)
     THEN /\ lastResult' = Result("delete", id, "notfound")
          /\ req' = IF origin = "client" THEN [req EXCEPT !.st = "fail"] ELSE req
          /\ UNCHANGED <<store, seq, subscribers, sstate, channel, snap, pub,
                         pubFailed>>
     ELSE /\ seq < MaxMutations
          /\ store' = StoreDel(store, id)
          /\ seq' = seq + 1
          /\ Publish(DeleteMsg(id, seq + 1))
          /\ lastResult' = Result("delete", id, "ok")
          /\ req' = IF origin = "client" THEN [req EXCEPT !.st = "ok"] ELSE req
  /\ UNCHANGED <<nextId, moduleVars, phase, todos, error, wsConnected, load,
                 obsVars>>

\* GET /api/todos answering the App's fetchTodos()
GetTodos ==
  /\ load.st = "sent"
  /\ load' = [load EXCEPT !.st = "ok", !.data = get_todos]
  /\ UNCHANGED <<serverVars, moduleVars, phase, todos, error, wsConnected,
                 req, obsVars>>

\* The request bodies a caller can send for a TodoItem. id: one the server
\* has handed out, or left to default_factory=uuid4 (nextId); created_at: a
\* time of the caller's choosing (0), or left to datetime.now (the number of
\* the mutation being committed).
Bodies ==
  {TodoRecord(i, t, at) : i \in 1..nextId, t \in StoreTitles, at \in {0, seq + 1}}

\* POST /api/todos with a full TodoItem body
PostTodo(todo) ==
  /\ seq < MaxMutations
  /\ store' = create_todo(store, todo)
  /\ nextId' = IF todo.id = nextId THEN nextId + 1 ELSE nextId
  /\ seq' = seq + 1
  /\ lastResult' = Result("create", todo.id, "ok")
  /\ UNCHANGED <<subscribers, sstate, channel, snap, pub, pubFailed,
                 moduleVars, appVars, obsVars>>

\* GET /api/todos/{todo_id}
GetTodo(todo_id) ==
  /\ lastResult' = Result("get", todo_id,
                          IF todo_id \in Keys(store) THEN "ok" ELSE "notfound")
  /\ UNCHANGED <<store, nextId, seq, subscribers, sstate, channel, snap, pub,
                 pubFailed, moduleVars, appVars, obsVars>>

\* PUT /api/todos/{todo_id}
PutTodo(todo_id, updated_todo) ==
  /\ IF todo_id \notin Keys(store)
     THEN /\ lastResult' = Result("update", todo_id, "notfound")
          /\ UNCHANGED <<store, nextId, seq>>
     ELSE /\ seq < MaxMutations
          /\ store' = update_todo(store, todo_id, updated_todo)
          /\ nextId' = IF updated_todo.id = nextId THEN nextId + 1 ELSE nextId
          /\ seq' = seq + 1
          /\ lastResult' = Result("update", todo_id, "ok")
  /\ UNCHANGED <<subscribers, sstate, channel, snap, pub, pubFailed,
                 moduleVars, appVars, obsVars>>

\* ------------------------------------------------------ Connection Gateway

\* Connecting -> Open: send one snapshot of the full current task list.
GatewayAccept(k) ==
  /\ sstate[k] = "Connecting"
  /\ cstate[k] = "CONNECTING"
  /\ sstate' = [sstate EXCEPT ![k] = "Open"]
  /\ channel' = [channel EXCEPT ![k] = Append(@, InitMsg(get_todos, seq))]
  /\ snap' = [snap EXCEPT ![k] = seq]
  /\ UNCHANGED <<store, nextId, seq, subscribers, pub, pubFailed, lastResult,
                 moduleVars, appVars, obsVars>>

\* A gateway that registers a connection before its snapshot is sent.
GatewaySubscribeEarly(k) ==
  /\ sstate[k] \in {"Connecting", "Open"}
  /\ k \notin Range(subscribers)
  /\ subscribers' = Append(subscribers, k)
  /\ UNCHANGED <<store, nextId, seq, sstate, channel, snap, pub, pubFailed,
                 lastResult, moduleVars, appVars, obsVars>>

\* ... then call subscribe, once the snapshot's send has returned.
GatewaySubscribe(k) ==
  /\ sstate[k] = "Open"
  /\ k \notin Range(subscribers)
  /\ subscribers' = Append(subscribers, k)
  /\ UNCHANGED <<store, nextId, seq, sstate, channel, snap, pub, pubFailed,
                 lastResult, moduleVars, appVars, obsVars>>

\* -> Closed on peer disconnect: unsubscribe the connection's handle.
GatewayClose(k) ==
  /\ sstate[k] \in {"Connecting", "Open"}
  /\ cstate[k] \in {"CLOSING", "CLOSED"}
  /\ sstate' = [sstate EXCEPT ![k] = "Closed"]
  /\ subscribers' = Unsubscribe(subscribers, {k})
  /\ snap' = [snap EXCEPT ![k] = -1]
  /\ pub' = [pub EXCEPT ![k] = <<>>]
  /\ UNCHANGED <<store, nextId, seq, channel, pubFailed, lastResult,
                 moduleVars, appVars, obsVars>>

\* ------------------------------------- client module: services/api.ts

\* The index the next new WebSocket(WS_URL) gets.
NewSocket == Cardinality({k \in Sockets : cstate[k] # "NONE"}) + 1

\* connectWebSocket(onMessage), called with tm the timers then pending
ConnectWebSocket(tm) ==
  IF isConnecting \/ (socket # NoSocket /\ cstate[socket] = "OPEN")
  THEN /\ timers' = tm
       /\ UNCHANGED <<socket, reconnectTimeout, isConnecting, cstate, onclose,
                      sstate>>
  ELSE /\ NewSocket \in Sockets
       /\ timers' = tm \ {reconnectTimeout}
       /\ reconnectTimeout' = NoTimer
       /\ isConnecting' = TRUE
       /\ socket' = NewSocket
       /\ cstate' = [cstate EXCEPT ![NewSocket] = "CONNECTING"]
       /\ onclose' = [onclose EXCEPT ![NewSocket] = TRUE]
       /\ sstate' = [sstate EXCEPT ![NewSocket] = "Connecting"]

\* An onclose that schedules no reconnect.
OnCloseNoReconnect(k) ==
  /\ isConnecting' = FALSE
  /\ UNCHANGED <<reconnectTimeout, timers>>

\* socket.onclose: isConnecting = false; reconnectTimeout = setTimeout(...)
OnClose(k) ==
  /\ isConnecting' = FALSE
  /\ reconnectTimeout' = k
  /\ timers' = timers \cup {k}

\* socket.onopen
SocketOpen(k) ==
  /\ cstate[k] = "CONNECTING"
  /\ sstate[k] \notin {"None", "Connecting"}
  /\ cstate' = [cstate EXCEPT ![k] = "OPEN"]
  /\ isConnecting' = FALSE
  /\ UNCHANGED <<serverVars, socket, reconnectTimeout, timers, onclose,
                 appVars, obsVars>>

\* A reconnect that does not wait: the failing socket's close handler calls
\* connectWebSocket at once.
SocketFailReconnectNow(k) ==
  /\ cstate[k] \in {"CONNECTING", "OPEN", "CLOSING"}
  /\ channel' = [channel EXCEPT ![k] = <<>>]
  /\ lastSeq' = [lastSeq EXCEPT ![k] = -1]
  /\ IF onclose[k] /\ NewSocket \in Sockets
     THEN /\ cstate' = [cstate EXCEPT ![k] = "CLOSED", ![NewSocket] = "CONNECTING"]
          /\ isConnecting' = TRUE
          /\ socket' = NewSocket
          /\ onclose' = [onclose EXCEPT ![NewSocket] = TRUE]
          /\ sstate' = [sstate EXCEPT ![NewSocket] = "Connecting"]
          /\ UNCHANGED <<reconnectTimeout, timers>>
     ELSE /\ cstate' = [cstate EXCEPT ![k] = "CLOSED"]
          /\ isConnecting' = FALSE
          /\ UNCHANGED <<socket, onclose, sstate, reconnectTimeout, timers>>
  /\ UNCHANGED <<store, nextId, seq, subscribers, snap, pub, pubFailed,
                 lastResult, appVars, lastMsg, lastSock>>

\* The connection fails: readyState CLOSED, then onerror, then onclose if set.
SocketFail(k) ==
  /\ cstate[k] \in {"CONNECTING", "OPEN", "CLOSING"}
  /\ cstate' = [cstate EXCEPT ![k] = "CLOSED"]
  /\ channel' = [channel EXCEPT ![k] = <<>>]
  /\ lastSeq' = [lastSeq EXCEPT ![k] = -1]
  /\ IF onclose[k]
     THEN OnClose(k)
     ELSE isConnecting' = FALSE /\ UNCHANGED <<reconnectTimeout, timers>>
  /\ UNCHANGED <<store, nextId, seq, subscribers, sstate, snap, pub,
                 pubFailed, lastResult, socket, onclose, appVars, lastMsg,
                 lastSock>>

\* The closing handshake of socket.close() completes: onclose if set.
SocketClose(k) ==
  /\ cstate[k] = "CLOSING"
  /\ cstate' = [cstate EXCEPT ![k] = "CLOSED"]
  /\ channel' = [channel EXCEPT ![k] = <<>>]
  /\ lastSeq' = [lastSeq EXCEPT ![k] = -1]
  /\ IF onclose[k]
     THEN OnClose(k)
     ELSE UNCHANGED <<isConnecting, reconnectTimeout, timers>>
  /\ UNCHANGED <<store, nextId, seq, subscribers, sstate, snap, pub,
                 pubFailed, lastResult, socket, onclose, appVars, lastMsg,
                 lastSock>>

\* The server starts the closing handshake of an open connection whose
\* messages have all been received: its gateway goes to Closed, and the
\* browser sets readyState to CLOSING until the connection is closed.
PeerClosing(k) ==
  /\ cstate[k] = "OPEN"
  /\ sstate[k] = "Open"
  /\ channel[k] = <<>>
  /\ cstate' = [cstate EXCEPT ![k] = "CLOSING"]
  /\ sstate' = [sstate EXCEPT ![k] = "Closed"]
  /\ subscribers' = Unsubscribe(subscribers, {k})
  /\ snap' = [snap EXCEPT ![k] = -1]
  /\ pub' = [pub EXCEPT ![k] = <<>>]
  /\ UNCHANGED <<store, nextId, seq, channel, pubFailed, lastResult, socket,
                 reconnectTimeout, isConnecting, timers, onclose, appVars,
                 obsVars>>

\* The setTimeout callback of onclose: connectWebSocket(onMessage)
TimerFire(t) ==
  /\ t \in timers
  /\ ConnectWebSocket(timers \ {t})
  /\ UNCHANGED <<store, nextId, seq, subscribers, channel, snap, pub,
                 pubFailed, lastResult, appVars, obsVars>>

\* disconnectWebSocket()
DisconnectWebSocket ==
  /\ timers' = timers \ {reconnectTimeout}
  /\ reconnectTimeout' = NoTimer
  /\ IF socket # NoSocket
     THEN /\ onclose' = [onclose EXCEPT ![socket] = FALSE]
          /\ cstate' = [cstate EXCEPT ![socket] =
                          IF @ \in {"OPEN", "CONNECTING"} THEN "CLOSING" ELSE @]
          /\ channel' = [channel EXCEPT ![socket] =
                          IF cstate[socket] \in {"OPEN", "CONNECTING"}
                          THEN <<>> ELSE @]
     ELSE UNCHANGED <<onclose, cstate, channel>>
  /\ socket' = NoSocket
  /\ isConnecting' = FALSE

\* connectWebSocket(onMessage) called by any user of the module
CallConnect ==
  /\ ConnectWebSocket(timers)
  /\ UNCHANGED <<store, nextId, seq, subscribers, channel, snap, pub,
                 pubFailed, lastResult, appVars, obsVars>>

\* disconnectWebSocket() called by any user of the module
CallDisconnect ==
  /\ DisconnectWebSocket
  /\ UNCHANGED <<store, nextId, seq, subscribers, sstate, snap, pub,
                 pubFailed, lastResult, appVars, obsVars>>

\* ------------------------------------------------------- App component

\* A filter that drops only the first match.
RemoveFirst(list, id) ==
  IF id \notin IdsOf(list) THEN list
  ELSE LET i == CHOOSE j \in 1..Len(list) :
                  /\ list[j].id = id
                  /\ \A h \in 1..(j - 1) : list[h].id # id
       IN SubSeq(list, 1, i - 1) \o SubSeq(list, i + 1, Len(list))

\* currentTodos.filter((todo) => todo.id !== data.id)
FilterOut(list, id) == SelectSeq(list, LAMBDA t : t.id # id)

\* An update that inserts the task when the list does not hold it.
MapReplaceOrInsert(list, t) ==
  IF t.id \in IdsOf(list)
  THEN [i \in 1..Len(list) |-> IF list[i].id = t.id THEN t ELSE list[i]]
  ELSE Append(list, t)

\* currentTodos.map((todo) => todo.id === data.todo.id ? data.todo : todo)
MapReplace(list, t) ==
  [i \in 1..Len(list) |-> IF list[i].id = t.id THEN t ELSE list[i]]

\* A handler that empties the list on a message type it does not know.
handleWebSocketMessageStrict(list, data) ==
  CASE data.type = "init" -> data.todos
    [] data.type = "create" -> Append(list, data.todo)
    [] data.type = "update" -> MapReplace(list, data.todo)
    [] data.type = "delete" -> FilterOut(list, data.id)
    [] OTHER -> <<>>

\* handleWebSocketMessage: the list each case hands to setTodos
handleWebSocketMessage(list, data) ==
  CASE data.type = "init" -> data.todos
    [] data.type = "create" -> Append(list, data.todo)
    [] data.type = "update" -> MapReplace(list, data.todo)
    [] data.type = "delete" -> FilterOut(list, data.id)
    [] OTHER -> list

\* handleWebSocketMessage as a whole, for message data arriving on socket k.
\* When reading data.type throws, no setter has been called yet.
OnMessage(k, data) ==
  /\ todos' = IF phase = "mounted" /\ ~HandlerThrows(data)
              THEN handleWebSocketMessage(todos, data) ELSE todos
  /\ wsConnected' = IF phase = "mounted" /\ ~HandlerThrows(data)
                       /\ data.type = "init"
                    THEN TRUE ELSE wsConnected
  /\ lastMsg' = data
  /\ lastSock' = k

\* socket.onmessage: try { JSON.parse(event.data), then onMessage(data) }
\* catch (err) { console.error(...) }
Receive(k) ==
  /\ cstate[k] = "OPEN"
  /\ channel[k] # <<>>
  /\ IF ParseThrows(Head(channel[k]))
     THEN /\ lastMsg' = Head(channel[k])
          /\ lastSock' = k
          /\ UNCHANGED <<todos, wsConnected>>
     ELSE OnMessage(k, Head(channel[k]))
  /\ channel' = [channel EXCEPT ![k] = Tail(@)]
  /\ lastSeq' = [lastSeq EXCEPT ![k] = Head(channel[k]).seq]
  /\ UNCHANGED <<store, nextId, seq, subscribers, sstate, snap, pub,
                 pubFailed, lastResult, moduleVars, phase, error, load, req>>

\* useEffect(() => { loadTodos(); ...; connectWebSocket(handleWebSocketMessage) }, [])
\* loadTodos up to its await: setError(null), fetchTodos() sent. The closure
\* reads the wsConnected of the render that created it.
RunEffect ==
  /\ phase' = "mounted"
  /\ error' = NULL
  /\ load' = [st |-> "sent", data |-> <<>>, ws |-> wsConnected]
  /\ ConnectWebSocket(timers)
  /\ UNCHANGED <<store, nextId, seq, subscribers, channel, snap, pub,
                 pubFailed, lastResult, todos, wsConnected, req, obsVars>>

\* The App is mounted for the first time.
Mount == phase = "init" /\ RunEffect

\* The App is mounted again after an unmount: a fresh component instance
\* runs the effect against the module's state as the last one left it.
Remount == phase = "unmounted" /\ RunEffect

\* The effect's cleanup on unmount. React discards the component's state,
\* and what its pending continuations set afterwards is set on nothing.
Unmount ==
  /\ phase = "mounted"
  /\ phase' = "unmounted"
  /\ DisconnectWebSocket
  /\ todos' = <<>>
  /\ error' = NULL
  /\ wsConnected' = FALSE
  /\ load' = NoLoad
  /\ req' = NoReq
  /\ lastMsg' = NoMsg
  /\ lastSock' = NoSocket
  /\ lastSeq' = [k \in Sockets |-> -1]
  /\ UNCHANGED <<store, nextId, seq, subscribers, sstate, snap, pub,
                 pubFailed, lastResult>>

\* fetch rejects, or the response is not ok
FetchFail ==
  /\ load.st = "sent"
  /\ load' = [load EXCEPT !.st = "fail"]
  /\ UNCHANGED <<serverVars, moduleVars, phase, todos, error, wsConnected,
                 req, obsVars>>

\* loadTodos after its await
LoadTodosDone ==
  /\ load.st \in {"ok", "fail"}
  /\ load' = [load EXCEPT !.st = "done", !.data = <<>>]
  /\ IF load.st = "ok"
     THEN /\ todos' = IF phase = "mounted" /\ ~load.ws THEN load.data ELSE todos
          /\ UNCHANGED error
     ELSE /\ error' = IF phase = "mounted" THEN LoadError ELSE error
          /\ UNCHANGED todos
  /\ UNCHANGED <<serverVars, moduleVars, phase, wsConnected, req, obsVars>>

\* handleAddTodo up to its await: setError(null), addTodo(title) sent
HandleAddTodo(title) ==
  /\ phase = "mounted"
  /\ req.st = "idle"
  /\ error' = NULL
  /\ req' = [st |-> "sent", kind |-> "add", title |-> title, id |-> 0]
  /\ UNCHANGED <<serverVars, moduleVars, phase, todos, wsConnected, load,
                 obsVars>>

\* handleDeleteTodo up to its await, for the delete button of a listed task
HandleDeleteTodo(id) ==
  /\ phase = "mounted"
  /\ req.st = "idle"
  /\ id \in IdsOf(todos)
  /\ error' = NULL
  /\ req' = [st |-> "sent", kind |-> "delete", title |-> "", id |-> id]
  /\ UNCHANGED <<serverVars, moduleVars, phase, todos, wsConnected, load,
                 obsVars>>

\* the request is lost before the server handles it
RequestFail ==
  /\ req.st = "sent"
  /\ req' = [req EXCEPT !.st = "fail"]
  /\ UNCHANGED <<serverVars, moduleVars, phase, todos, error, wsConnected,
                 load, obsVars>>

\* A handleAddTodo that appends the task it asked for.
HandleAddTodoOptimistic ==
  /\ req.kind = "add"
  /\ req.st \in {"ok", "fail"}
  /\ req' = NoReq
  /\ todos' = Append(todos, TodoItem(nextId - 1, req.title))
  /\ error' = IF req.st = "fail" /\ phase = "mounted" THEN AddError ELSE error
  /\ UNCHANGED <<serverVars, moduleVars, phase, wsConnected, load, obsVars>>

\* handleAddTodo after its await
HandleAddTodoDone ==
  /\ req.kind = "add"
  /\ req.st \in {"ok", "fail"}
  /\ req' = NoReq
  /\ error' = IF req.st = "fail" /\ phase = "mounted" THEN AddError ELSE error
  /\ UNCHANGED <<serverVars, moduleVars, phase, todos, wsConnected, load,
                 obsVars>>

\* A handleDeleteTodo that swallows a failure.
HandleDeleteTodoDoneSilent ==
  /\ req.kind = "delete"
  /\ req.st \in {"ok", "fail"}
  /\ req' = NoReq
  /\ UNCHANGED <<serverVars, moduleVars, phase, todos, error, wsConnected,
                 load, obsVars>>

\* handleDeleteTodo after its await
HandleDeleteTodoDone ==
  /\ req.kind = "delete"
  /\ req.st \in {"ok", "fail"}
  /\ req' = NoReq
  /\ error' = IF req.st = "fail" /\ phase = "mounted" THEN DeleteError ELSE error
  /\ UNCHANGED <<serverVars, moduleVars, phase, todos, wsConnected, load,
                 obsVars>>

\* ------------------------------------------------------- specifications

Origins == {"client", "other"}

\* The server handling other callers' requests and connections, and the
\* client module's socket events.
NextCore ==
  \/ \E t \in Titles : CreateTodo("other", t)
  \/ \E i \in Ids : DeleteTodo("other", i)
  \/ \E k \in Sockets : GatewayAccept(k)
  \/ \E k \in Sockets : GatewaySubscribe(k)
  \/ \E k \in Sockets : GatewayClose(k)
  \/ \E k \in Sockets : SocketOpen(k)
  \/ \E k \in Sockets : SocketClose(k)
  \/ \E k \in Sockets : Receive(k)
  \/ Mount
  \/ Unmount

\* The App's request/response operations.
NextRest ==
  \/ \E t \in Titles : CreateTodo("client", t)
  \/ \E i \in Ids : DeleteTodo("client", i)
  \/ GetTodos
  \/ FetchFail
  \/ LoadTodosDone
  \/ \E t \in Titles : HandleAddTodo(t)
  \/ \E i \in Ids : HandleDeleteTodo(i)
  \/ RequestFail
  \/ HandleAddTodoDone
  \/ HandleDeleteTodoDone

NextReconnect == \E t \in Sockets : TimerFire(t)

NextFail == \E k \in Sockets : SocketFail(k)

Next == NextCore \/ NextRest \/ NextReconnect \/ NextFail

Spec == Init /\ [][Next]_vars

\* The live channel alone: the App's fetch stays unanswered and it sends no
\* write request (to the server, a write of the App is a write of any caller).
NextFanout == NextCore \/ NextReconnect \/ NextFail

SpecFanout == Init /\ [][NextFanout]_vars

\* One connection's lifetime, with callers writing and reading single tasks.
NextRequests == NextCore \/ \E i \in Ids : GetTodo(i)

SpecRequests == Init /\ [][NextRequests]_vars

\* The App's whole life: mounted, unmounted and mounted again, its
\* connections failing, being closed by the server and being reopened by
\* the reconnect timer. The Store does not change.
NextLifecycle ==
  \/ Mount
  \/ Unmount
  \/ Remount
  \/ NextReconnect
  \/ NextFail
  \/ \E k \in Sockets : SocketOpen(k)
  \/ \E k \in Sockets : SocketClose(k)
  \/ \E k \in Sockets : PeerClosing(k)
  \/ \E k \in Sockets : Receive(k)
  \/ \E k \in Sockets : GatewayAccept(k)
  \/ \E k \in Sockets : GatewaySubscribe(k)
  \/ \E k \in Sockets : GatewayClose(k)

SpecLifecycle == Init /\ [][NextLifecycle]_vars

\* The client module alone, used by any caller: connectWebSocket and
\* disconnectWebSocket called in any order, between any socket events.
NextModule ==
  \/ CallConnect
  \/ CallDisconnect
  \/ \E t \in Sockets : TimerFire(t)
  \/ \E k \in Sockets : SocketOpen(k)
  \/ \E k \in Sockets : SocketFail(k)
  \/ \E k \in Sockets : SocketClose(k)
  \/ \E k \in Sockets : PeerClosing(k)
  \/ \E k \in Sockets : Receive(k)
  \/ \E k \in Sockets : GatewayAccept(k)
  \/ \E k \in Sockets : GatewaySubscribe(k)
  \/ \E k \in Sockets : GatewayClose(k)

SpecModule == Init /\ [][NextModule]_vars

\* One connection's lifetime with the App's request/response operations:
\* no reconnect timer fires.
NextSession == NextCore \/ NextRest \/ NextFail

SpecSession == Init /\ [][NextSession]_vars

\* The live channel with the server reachable: the last connection a run may
\* open does not fail. The browser fires a due timer, an open event and a
\* message event, and the server accepts a connection that is waiting.
NextLive ==
  \/ NextCore
  \/ NextReconnect
  \/ \E k \in 1..(MaxSockets - 1) : SocketFail(k)

Fairness ==
  \A k \in Sockets :
    /\ WF_vars(TimerFire(k))
    /\ WF_vars(GatewayAccept(k))
    /\ WF_vars(SocketOpen(k))
    /\ WF_vars(Receive(k))

SpecLive == Init /\ [][NextLive]_vars /\ Fairness

\* The Store alone: any caller's requests on the REST endpoints, no live
\* connection.
NextStore ==
  \/ \E todo \in Bodies : PostTodo(todo)
  \/ \E i \in Ids : GetTodo(i)
  \/ \E i \in Ids : \E todo \in Bodies : PutTodo(i, todo)
  \/ \E i \in Ids : DeleteTodo("other", i)

SpecStore == Init /\ [][NextStore]_vars

\* The message handler alone: the App mounted, socket 1 open, the
\* client-local list any list, and a peer that may send any message.
ReducerTitles == {"a", "b"}
ReducerTasks == {TodoItem(i, t) : i \in 1..MaxRid, t \in ReducerTitles}
ReducerMsgs ==
  {InitMsg(l, 0) : l \in SeqsUpTo(ReducerTasks, MaxInitLen)}
    \cup {CreateMsg(t, 0) : t \in ReducerTasks}
    \cup {UpdateMsg(t, 0) : t \in ReducerTasks}
    \cup {DeleteMsg(i, 0) : i \in 1..MaxRid}
    \cup {OtherMsg, NullMsg, BadJson}

InitReducer ==
  /\ store = <<>>
  /\ nextId = 1
  /\ seq = 0
  /\ subscribers = <<1>>
  /\ sstate = [k \in Sockets |-> IF k = 1 THEN "Open" ELSE "None"]
  /\ channel = [k \in Sockets |-> <<>>]
  /\ snap = [k \in Sockets |-> IF k = 1 THEN 0 ELSE -1]
  /\ pub = [k \in Sockets |-> <<>>]
  /\ pubFailed = {}
  /\ lastResult = NoResult
  /\ socket = 1
  /\ reconnectTimeout = NoTimer
  /\ isConnecting = FALSE
  /\ timers = {}
  /\ cstate = [k \in Sockets |-> IF k = 1 THEN "OPEN" ELSE "NONE"]
  /\ onclose = [k \in Sockets |-> k = 1]
  /\ phase = "mounted"
  /\ todos \in SeqsUpTo(ReducerTasks, MaxLen)
  /\ error = NULL
  /\ wsConnected = FALSE
  /\ load = [NoLoad EXCEPT !.st = "done"]
  /\ req = NoReq
  /\ lastMsg = NoMsg
  /\ lastSock = NoSocket
  /\ lastSeq = [k \in Sockets |-> -1]

\* The peer sends message m on socket 1.
PeerSend(m) ==
  /\ channel[1] = <<>>
  /\ m.type = "create" => Len(todos) < MaxLen
  /\ channel' = [channel EXCEPT ![1] = <<m>>]
  /\ UNCHANGED <<store, nextId, seq, subscribers, sstate, snap, pub,
                 pubFailed, lastResult, moduleVars, appVars, obsVars>>

NextReducer ==
  \/ \E m \in ReducerMsgs : PeerSend(m)
  \/ Receive(1)

SpecReducer == InitReducer /\ [][NextReducer]_vars

\* ---------------------------------------------------------------- claims

\* This step is socket k's onmessage handling the head of its channel.
Received(k) ==
  /\ cstate[k] = "OPEN"
  /\ cstate'[k] = "OPEN"
  /\ channel[k] # <<>>
  /\ channel'[k] = Tail(channel[k])

\* This step is loadTodos applying a successful fetch response.
FetchApplied == load.st = "ok" /\ load'.st = "done"

Count(list, x) == Cardinality({i \in 1..Len(list) : list[i] = x})

\* C1 (as claimed): once the init snapshot has been processed (wsConnected
\* is true), a fetchTodos response arriving afterwards is discarded: the
\* step that finishes loadTodos leaves todos as the live channel made it.
C1_SnapshotWins ==
  [][(phase = "mounted" /\ wsConnected /\ FetchApplied) => todos' = todos]_vars

\* The client is connected and nothing is in flight towards it.
Quiescent ==
  /\ phase = "mounted"
  /\ socket # NoSocket
  /\ cstate[socket] = "OPEN"
  /\ sstate[socket] = "Open"
  /\ socket \in Range(subscribers)
  /\ lastSeq[socket] >= 0
  /\ channel[socket] = <<>>
  /\ load.st = "done"
  /\ req.st = "idle"

\* C2 (as claimed): whenever the client is connected and no event and no
\* fetch response is in flight, the client-local list holds exactly the
\* identifiers the server Store holds.
C2_Convergence == Quiescent => IdsOf(todos) = Keys(store)

\* C3 (as claimed): handling a create event for a task whose identifier is
\* already in the client-local list leaves the list unchanged.
C3_CreateIdempotent ==
  [][\A k \in Sockets :
       (/\ Received(k)
        /\ Head(channel[k]).type = "create"
        /\ Head(channel[k]).todo.id \in IdsOf(todos))
       => todos' = todos]_vars

\* C4: handling a delete event for identifier i removes every task with
\* identifier i and nothing else (the other tasks keep their number and their
\* order), and handling it when i is absent, or a second time in a row,
\* leaves the list unchanged.
C4_DeleteIdempotent ==
  [][\A k \in Sockets :
       (Received(k) /\ Head(channel[k]).type = "delete") =>
         LET i == Head(channel[k]).id IN
           /\ i \notin IdsOf(todos')
           /\ \A x \in Range(todos) : x.id # i => Count(todos', x) = Count(todos, x)
           /\ Range(todos') \subseteq Range(todos)
           /\ \A a, b \in 1..Len(todos') :
                a < b => \E c, d \in 1..Len(todos) :
                           c < d /\ todos[c] = todos'[a] /\ todos[d] = todos'[b]
           /\ i \notin IdsOf(todos) => todos' = todos
           /\ lastMsg = Head(channel[k]) => todos' = todos]_vars

\* C4 witness: a delete event has just been handled a second time in a row
\* on a list that still holds other tasks.
C4_Witness ==
  /\ lastMsg.type = "delete"
  /\ channel[1] = <<lastMsg>>
  /\ todos # <<>>
  /\ lastMsg.id \notin IdsOf(todos)

\* C5 (as claimed): while the App is mounted and its live connection is not
\* open, wsConnected is false.
C5_OfflineIndicator ==
  (phase = "mounted" /\ (socket = NoSocket \/ cstate[socket] # "OPEN"))
    => ~wsConnected

\* C7: a step of handleAddTodo or handleDeleteTodo (sending the request, the
\* server answering it, the request failing, the handler finishing) leaves
\* todos unchanged, and while the App stays mounted todos changes only in a
\* step that handles a live-channel message or applies the fetch result.
C7_NoOptimisticWrite ==
  [][phase' = "mounted" =>
       /\ req' # req => todos' = todos
       /\ todos' # todos => (FetchApplied \/ \E k \in Sockets : Received(k))]_vars

\* C7 witness: the App's own create has succeeded on the server, and the
\* client-local list does not hold the new task.
C7_Witness ==
  /\ phase = "mounted"
  /\ req.kind = "add"
  /\ req.st = "ok"
  /\ (nextId - 1) \in Keys(store)
  /\ (nextId - 1) \notin IdsOf(todos)

\* The mutations numbered a+1 .. b, in order.
SeqRange(a, b) == [i \in 1..(b - a) |-> a + i]

\* C8 (as claimed): a registered, open connection has been sent exactly one
\* event for every mutation committed after its snapshot was taken and none
\* for an earlier one: no mutation falls between snapshot and subscription.
C8_ExactlyOnceFanOut ==
  \A k \in Sockets :
    (k \in Range(subscribers) /\ sstate[k] = "Open")
      => pub[k] = SeqRange(snap[k], seq)

C10_PublishIsolation ==
  [][seq' = seq + 1 =>
       /\ \A k \in Range(subscribers) :
            IF LinkUp(k)
            THEN /\ pub'[k] = Append(pub[k], seq')
                 /\ k \in Range(subscribers')
                 /\ Listening(k) =>
                      /\ Len(channel'[k]) = Len(channel[k]) + 1
                      /\ channel'[k][Len(channel'[k])].seq = seq'
            ELSE /\ k \notin Range(subscribers')
                 /\ sstate'[k] = "Closed"
       /\ store' # store
       /\ lastResult'.status = "ok"
       /\ req.st = "sent" /\ req' # req => req'.st = "ok"]_vars

\* C10 witness: the last publish failed for one subscriber and reached
\* another, which is still registered.
C10_Witness ==
  /\ pubFailed # {}
  /\ \E k \in Range(subscribers) :
       /\ pub[k] # <<>>
       /\ pub[k][Len(pub[k])] = seq
       /\ channel[k] # <<>>

\* Socket k closed with its onclose handler set (no manual disconnect), and
\* no socket created after it has received its snapshot yet.
LostAndStale(k) ==
  /\ phase = "mounted"
  /\ cstate[k] = "CLOSED"
  /\ onclose[k]
  /\ \A j \in Sockets : j > k => lastSeq[j] = -1

\* A socket created after k is open and has just handled the snapshot the
\* server took for it: todos is that snapshot's task list.
Resnapshot(k) ==
  /\ lastSock > k
  /\ cstate[lastSock] = "OPEN"
  /\ lastMsg.type = "init"
  /\ lastMsg.seq = snap[lastSock]
  /\ todos = lastMsg.todos

\* C6: after a connection is lost without a manual disconnect the client,
\* unless it is unmounted first, opens a new connection, receives a fresh
\* snapshot and holds exactly that snapshot's task list.
C6_ReconnectResnapshot ==
  \A k \in 1..(MaxSockets - 1) :
    LostAndStale(k) ~> (phase = "unmounted" \/ Resnapshot(k))

\* C6 witness: after a lost connection the list is the fresh snapshot of a
\* later socket, which holds a task.
C6_Witness ==
  \E k \in Sockets :
    /\ phase = "mounted"
    /\ cstate[k] = "CLOSED"
    /\ onclose[k]
    /\ Resnapshot(k)
    /\ todos # <<>>

\* The identifiers list() returns.
Listed == IdsOf(get_todos)

\* This step is the server answering a request of kind op with success.
Committed(op) == seq' = seq + 1 /\ lastResult'.op = op

\* C11 (as claimed): starting from the empty Store, a successful create adds
\* exactly its identifier to those list() returns and makes the Store one
\* entry larger, a successful delete removes exactly its identifier, and no
\* other operation changes the identifiers list() returns: they are the
\* identifiers created and not deleted since.
C11_ListIsCreatedNotDeleted ==
  [][/\ Committed("create") =>
          /\ Listed' = Listed \cup {lastResult'.id}
          /\ Len(store') = Len(store) + 1
     /\ Committed("delete") => Listed' = Listed \ {lastResult'.id}
     /\ ~(Committed("create") \/ Committed("delete")) => Listed' = Listed]_vars

\* C12: a delete or a get of an identifier absent from the Store is answered
\* not-found, and the step leaves the Store, the mutation count, the
\* subscriber set and everything sent to any connection unchanged.
C12_AbsentIsNotFound ==
  [][(/\ lastResult' # lastResult
      /\ lastResult'.op \in {"delete", "get"}
      /\ lastResult'.id \notin Keys(store))
     => /\ lastResult'.status = "notfound"
        /\ store' = store
        /\ seq' = seq
        /\ subscribers' = subscribers
        /\ channel' = channel
        /\ pub' = pub]_vars

\* C12 witness: a delete of an absent identifier has been answered not-found
\* while the Store holds a task and a registered connection is open.
C12_Witness ==
  /\ lastResult.op = "delete"
  /\ lastResult.status = "notfound"
  /\ store # <<>>
  /\ \E k \in Range(subscribers) : cstate[k] = "OPEN" /\ sstate[k] = "Open"

\* C13 (as claimed): every record of the Store is stored under its own
\* identifier, and a task that stays in the Store across an update, a delete
\* or a read keeps its identifier and its creation timestamp.
C13_StableIdentity ==
  [][/\ \A e \in Range(store') : e.val.id = e.key
     /\ ~Committed("create") =>
          \A k \in Keys(store) \cap Keys(store') :
            /\ Lookup(store', k).id = Lookup(store, k).id
            /\ Lookup(store', k).created_at = Lookup(store, k).created_at]_vars

\* C14 (as claimed): no task whose title is empty after trimming is ever in
\* the Store.
C14_NoBlankTitle == \A e \in Range(store) : Trim(e.val.title) # <<>>

\* C15: at most one reconnect timer is pending, a timer is scheduled only by
\* the loss of a connection and one loss schedules at most one, and while the
\* App stays mounted a new WebSocket is created only by a timer that fires.
C15_BoundedReconnect ==
  [][/\ Cardinality(timers') <= 1
     /\ Cardinality(timers' \ timers) <= 1
     /\ timers' \ timers # {} =>
          \E k \in Sockets : cstate[k] # "CLOSED" /\ cstate'[k] = "CLOSED"
     /\ (phase = "mounted" /\ NewSocket' # NewSocket) =>
          \E t \in timers : t \notin timers']_vars

\* C15 witness: the connection a fired timer opened has been lost in turn,
\* and its loss has scheduled the one timer now pending.
C15_Witness ==
  /\ phase = "mounted"
  /\ cstate[1] = "CLOSED"
  /\ onclose[1]
  /\ socket = 2
  /\ cstate[2] = "CLOSED"
  /\ timers = {2}
  /\ reconnectTimeout = 2

\* The sockets of this module that are connecting or open.
LiveSockets == {k \in Sockets : cstate[k] \in {"CONNECTING", "OPEN"}}

\* C17 (as claimed): while a socket this module created is connecting or
\* open it is the only such socket, it is the module's current socket, and
\* connectWebSocket's early return applies, so that a call returns it and
\* creates no new WebSocket.
C17_SingleLiveConnection ==
  LiveSockets # {} =>
    /\ LiveSockets = {socket}
    /\ isConnecting \/ cstate[socket] = "OPEN"

\* C18 (as claimed): from disconnectWebSocket's return until the next
\* explicit connectWebSocket call the module has no current socket, and in
\* that time no reconnect timer is pending, so none fires to create one.
C18_DisconnectIsFinal == socket = NoSocket => timers = {}

\* C16: while the App is mounted, the step in which a failed list, create or
\* delete request is handled sets that operation's error message and leaves
\* todos unchanged, and the step that starts a request clears the message.
C16_RequestFailureSurfaces ==
  [][/\ (phase = "mounted" /\ load.st = "fail" /\ load'.st = "done") =>
          error' = LoadError /\ todos' = todos
     /\ (phase' = "mounted" /\ req.st = "fail" /\ req'.st = "idle") =>
          /\ error' = IF req.kind = "add" THEN AddError ELSE DeleteError
          /\ todos' = todos
     /\ (req.st = "idle" /\ req'.st = "sent") => error' = NULL
     /\ (load.st # "sent" /\ load'.st = "sent") => error' = NULL]_vars

\* C16 witness: a delete request has failed and been handled: its message
\* is shown and the task is still listed.
C16_Witness ==
  /\ phase = "mounted"
  /\ error = DeleteError
  /\ req = NoReq
  /\ todos # <<>>

\* C19 (as claimed): the client-local list never holds two tasks with the
\* same identifier.
C19_NoDuplicateIds == Cardinality(IdsOf(todos)) = Len(todos)

\* C20: handling an update event keeps the list's length, puts the event's
\* task at every place whose task has its identifier, leaves every other
\* place as it was, and leaves the whole list unchanged when no task has
\* that identifier.
C20_UpdateReplacesInPlace ==
  [][\A k \in Sockets :
       (Received(k) /\ Head(channel[k]).type = "update") =>
         LET t == Head(channel[k]).todo IN
           /\ Len(todos') = Len(todos)
           /\ \A i \in 1..Len(todos) :
                /\ todos[i].id = t.id => todos'[i] = t
                /\ todos[i].id # t.id => todos'[i] = todos[i]
           /\ t.id \notin IdsOf(todos) => todos' = todos]_vars

\* C20 witness: an update event has just been handled on a list that holds
\* its task at two places and another task besides.
C20_Witness ==
  /\ lastMsg.type = "update"
  /\ Len(todos) = 3
  /\ Count(todos, lastMsg.todo) = 2
  /\ \E i \in 1..Len(todos) : todos[i].id # lastMsg.todo.id

\* The frame is not valid JSON, or its data has none of the handled types.
Unhandled(frame) ==
  \/ frame.json # "object"
  \/ frame.type \notin {"init", "create", "update", "delete"}

\* C21: the step in which onmessage is given a frame that is not valid JSON
\* or whose type is not handled leaves todos, wsConnected and error
\* unchanged, takes that frame alone off the socket's queue, and leaves the
\* socket open, current and with its handlers, so that the messages after it
\* are processed.
C21_BadMessageIgnored ==
  [][\A k \in Sockets :
       (Received(k) /\ Unhandled(Head(channel[k]))) =>
         /\ todos' = todos
         /\ wsConnected' = wsConnected
         /\ error' = error
         /\ channel'[k] = Tail(channel[k])
         /\ cstate' = cstate
         /\ socket' = socket
         /\ onclose' = onclose]_vars

\* C21 witness: a frame that is not JSON has just been received on the open
\* socket of an App that shows live data and a non-empty list.
C21_Witness ==
  /\ lastMsg = BadJson
  /\ lastSock = 1
  /\ cstate[1] = "OPEN"
  /\ channel[1] = <<>>
  /\ wsConnected
  /\ todos # <<>>

====
